---- MODULE Spec2Model ----
(***************************************************************************)
(* The request pipeline of the sparql-authorization-wrapper-service        *)
(* (src/app.js): body parsing, the checking/authorization middleware, the  *)
(* /sparql proxy with its onProxyReq hook, and the error handler, run by   *)
(* the Express router for each inbound request.                            *)
(***************************************************************************)
EXTENDS Integers, Sequences, FiniteSets, TLC

\* Longest raw body, in bytes, that a caller sends.
MaxBodyLen == 3

\* Requests that can be in flight.
NumReqs == 2

Reqs == 1..NumReqs

(***************************************************************************)
(* JavaScript values.  t is the typeof-like tag, v the primitive's text,   *)
(* status and message the properties the error handler reads (the empty    *)
(* set: the property is undefined).                                        *)
(***************************************************************************)
Undef == [t |-> "undefined", v |-> "", status |-> {}, message |-> {}]

Null == [t |-> "null", v |-> "", status |-> {}, message |-> {}]

Str(s) == [t |-> "string", v |-> s, status |-> {}, message |-> {}]

Num(s) == [t |-> "number", v |-> s, status |-> {}, message |-> {}]

Bool(s) == [t |-> "boolean", v |-> s, status |-> {}, message |-> {}]

\* new Error(message), with err.status = s for each s in status
MkError(msg, status) == [t |-> "object", v |-> "Error", status |-> status, message |-> {msg}]

\* ToBoolean, as used by `!x`, `x || y` and `if (x)`
Truthy(x) ==
    CASE x.t = "undefined" -> FALSE
      [] x.t = "null" -> FALSE
      [] x.t = "boolean" -> x.v = "true"
      [] x.t = "number" -> x.v \notin {"0", "NaN"}
      [] x.t = "string" -> x.v # ""
      [] OTHER -> TRUE

(***************************************************************************)
(* Bytes and text: Buffer.toString() decodes UTF-8, writing a string       *)
(* encodes it as UTF-8, String.prototype.trim() strips white space.        *)
(***************************************************************************)
\* space, 'A', the two bytes of U+00E9, and a byte that no UTF-8 text holds
Bytes == {32, 65, 195, 169, 255}

RECURSIVE SeqsUpTo(_, _)
SeqsUpTo(S, n) ==
    IF n = 0 THEN {<<>>}
    ELSE LET shorter == SeqsUpTo(S, n - 1)
         IN shorter \cup {Append(s, x) : s \in shorter, x \in S}

RawBodies == SeqsUpTo(Bytes, MaxBodyLen)

\* Buffer.prototype.toString('utf8'): an ill-formed sequence decodes to U+FFFD
RECURSIVE Utf8DecodeFrom(_, _, _, _, _, _)
Utf8DecodeFrom(b, i, cp, needed, lo, hi) ==
    IF i > Len(b) THEN (IF needed # 0 THEN <<65533>> ELSE <<>>)
    ELSE LET x == b[i] IN
      IF needed = 0 THEN
        IF x <= 127 THEN <<x>> \o Utf8DecodeFrom(b, i + 1, 0, 0, 128, 191)
        ELSE IF x >= 194 /\ x <= 223 THEN Utf8DecodeFrom(b, i + 1, x - 192, 1, 128, 191)
        ELSE IF x >= 224 /\ x <= 239
          THEN Utf8DecodeFrom(b, i + 1, x - 224, 2,
                              IF x = 224 THEN 160 ELSE 128, IF x = 237 THEN 159 ELSE 191)
        ELSE IF x >= 240 /\ x <= 244
          THEN Utf8DecodeFrom(b, i + 1, x - 240, 3,
                              IF x = 240 THEN 144 ELSE 128, IF x = 244 THEN 143 ELSE 191)
        ELSE <<65533>> \o Utf8DecodeFrom(b, i + 1, 0, 0, 128, 191)
      ELSE IF x < lo \/ x > hi THEN <<65533>> \o Utf8DecodeFrom(b, i, 0, 0, 128, 191)
      ELSE IF needed = 1 THEN <<cp * 64 + (x - 128)>> \o Utf8DecodeFrom(b, i + 1, 0, 0, 128, 191)
      ELSE Utf8DecodeFrom(b, i + 1, cp * 64 + (x - 128), needed - 1, 128, 191)

Utf8Decode(b) == Utf8DecodeFrom(b, 1, 0, 0, 128, 191)

Utf8EncodeChar(c) ==
    IF c < 128 THEN <<c>>
    ELSE IF c < 2048 THEN <<192 + (c \div 64), 128 + (c % 64)>>
    ELSE IF c < 65536 THEN <<224 + (c \div 4096), 128 + ((c \div 64) % 64), 128 + (c % 64)>>
    ELSE <<240 + (c \div 262144), 128 + ((c \div 4096) % 64),
           128 + ((c \div 64) % 64), 128 + (c % 64)>>

RECURSIVE Utf8Encode(_)
Utf8Encode(s) == IF s = <<>> THEN <<>> ELSE Utf8EncodeChar(Head(s)) \o Utf8Encode(Tail(s))

\* the code points String.prototype.trim() removes
WhiteSpace ==
    {9, 10, 11, 12, 13, 32, 160, 5760, 8232, 8233, 8239, 8287, 12288, 65279} \cup (8192..8202)

RECURSIVE TrimStart(_)
TrimStart(s) == IF s # <<>> /\ Head(s) \in WhiteSpace THEN TrimStart(Tail(s)) ELSE s

RECURSIVE TrimEnd(_)
TrimEnd(s) ==
    IF s # <<>> /\ s[Len(s)] \in WhiteSpace THEN TrimEnd(SubSeq(s, 1, Len(s) - 1)) ELSE s

Trim(s) == TrimEnd(TrimStart(s))

\* "[object Object]", what Object.prototype.toString gives for a plain object
ObjectObject == <<91, 111, 98, 106, 101, 99, 116, 32, 79, 98, 106, 101, 99, 116, 93>>

(***************************************************************************)
(* Inbound requests.                                                       *)
(***************************************************************************)
FormType == "application/x-www-form-urlencoded"

SparqlType == "application/sparql-query"

\* req.get('Content-Type'): undefined when the header is absent
ContentTypes == {Undef, Str(FormType), Str(SparqlType), Str("text/plain")}

\* RegExp.prototype.test(x): x is converted to a string first; among ContentTypes a
\* header value contains the pattern exactly when it is the pattern
RegExpTest(pattern, x) == x.t = "string" /\ x.v = pattern

Methods == {"GET", "POST", "PUT", "DELETE"}

\* URL paths, as their segments
Paths == {<<"sparql">>, <<"sparql", "sub">>, <<"other">>}

\* req.get('Mu-Session-Id'): absent, sent empty, or a session IRI
SessionHeaders ==
    {Undef, Str(""), Str("http://example/sessions/1"), Str("http://example/sessions/2")}

\* req.query.query: the `query` URL parameter
QueryParams == {Undef, Str(""), Str("SELECT")}

\* A decoded form document: the fields it has, each with its text
FormDocs == UNION {[names -> {"", "SELECT"}] : names \in SUBSET {"query", "format"}}

NoFields == [n \in {} |-> ""]

\* What the caller puts on the wire after the headers: nothing at all (no
\* Content-Length), raw bytes, or the encoding of a form document
NoPayload == [k |-> "none", bytes |-> <<>>, fields |-> NoFields]

RawPayload(b) == [k |-> "raw", bytes |-> b, fields |-> NoFields]

FormPayload(f) == [k |-> "form", bytes |-> <<>>, fields |-> f]

\* A form document is sent under the form content type; raw bytes under any other
PayloadsFor(ct) ==
    IF ct = Str(FormType) THEN {NoPayload} \cup {FormPayload(f) : f \in FormDocs}
    ELSE {NoPayload} \cup {RawPayload(b) : b \in RawBodies}

\* req.body values: a plain object with its own keys, or a Buffer
ObjectBody(f) == [t |-> "object", fields |-> f, bytes |-> <<>>]

BufferBody(b) == [t |-> "buffer", fields |-> NoFields, bytes |-> b]

\* The body parsers in front of the pipeline: urlencoded (mu template) fills req.body
\* from a form document, bodyParser.raw keeps an application/sparql-query body as a
\* Buffer, and a request neither of them reads keeps the default req.body = {}
ParseBody(ct, payload) ==
    IF payload.k = "none" THEN ObjectBody(NoFields)
    ELSE IF ct = Str(FormType) THEN ObjectBody(payload.fields)
    ELSE IF ct = Str(SparqlType) THEN BufferBody(payload.bytes)
    ELSE ObjectBody(NoFields)

MkRequest(m, p, ct, s, q, w) ==
    [method |-> m, path |-> p, contentType |-> ct, session |-> s, query |-> q,
     payload |-> w, body |-> ParseBody(ct, w)]

NoRequest ==
    [method |-> "", path |-> <<>>, contentType |-> Undef, session |-> Undef, query |-> Undef,
     payload |-> NoPayload, body |-> ObjectBody(NoFields)]

(***************************************************************************)
(* Validation (src/app.js, Helpers).  A function that can throw returns    *)
(* whether it threw, and what.                                             *)
(***************************************************************************)
NoThrow == [threw |-> FALSE, err |-> Undef]

Throw(e) == [threw |-> TRUE, err |-> e]

\* req.body?.query
BodyQuery(body) ==
    IF body.t = "object" /\ "query" \in DOMAIN body.fields THEN Str(body.fields["query"])
    ELSE Undef

\* req.body.toString()
BodyToString(body) == IF body.t = "buffer" THEN Utf8Decode(body.bytes) ELSE ObjectObject

\* Object.keys(req.body).length: own keys of the object, indices of the Buffer
BodyKeyCount(body) ==
    IF body.t = "buffer" THEN Len(body.bytes) ELSE Cardinality(DOMAIN body.fields)

\* ensurePOSTSparqlParams without its final else branch
ensurePOSTSparqlParams_NoElse(rq) ==
    IF RegExpTest(FormType, rq.contentType) /\ ~Truthy(BodyQuery(rq.body))
    THEN Throw(MkError("you must supply the query as a form parameter.", {400}))
    ELSE IF RegExpTest(SparqlType, rq.contentType) /\ Trim(BodyToString(rq.body)) = <<>>
    THEN Throw(MkError("you must supply the query as the body.", {400}))
    ELSE NoThrow

ensurePOSTSparqlParams(rq) ==
    IF RegExpTest(FormType, rq.contentType) THEN
        IF ~Truthy(BodyQuery(rq.body))
        THEN Throw(MkError(
                 "When querying with POST and Content-Type application/x-www-form-urlencoded, you must supply the query as a form parameter.", {400}))
        ELSE NoThrow
    ELSE IF RegExpTest(SparqlType, rq.contentType) THEN
        IF Trim(BodyToString(rq.body)) = <<>>
        THEN Throw(MkError(
                 "When querying with POST and Content-Type application/sparql-query, you must supply the query as the body.", {400}))
        ELSE NoThrow
    ELSE Throw(MkError(
             "Content-Type not valid, only application/x-www-form-urlencoded or application/sparql-query are accepted", {400}))

ensureGETSparqlParams(rq) ==
    IF ~Truthy(rq.query)
    THEN Throw(MkError(
                 "When executing a GET request, the query should be supplied as a URL query parameter.", {}))
    ELSE IF BodyKeyCount(rq.body) # 0
    THEN Throw(MkError(
                 "When executing a GET request, the body needs to be empty", {}))
    ELSE NoThrow

\* ensureSparqlParams without its check of the session header
ensureSparqlParams_NoSessionCheck(rq) ==
    CASE rq.method = "POST" -> ensurePOSTSparqlParams(rq)
      [] rq.method = "GET" -> ensureGETSparqlParams(rq)
      [] OTHER -> Throw(MkError("Not a correctly formed request for SPARQL queries.", {401}))

\* ensureSparqlParams checking the session header before the shape
ensureSparqlParams_SessionFirst(rq) ==
    IF ~Truthy(rq.session)
    THEN Throw(MkError("The required mu-session-id header could not be found.", {401}))
    ELSE ensureSparqlParams_NoSessionCheck(rq)

\* ensureSparqlParams without the default case of its switch
ensureSparqlParams_NoDefault(rq) ==
    LET shape ==
          CASE rq.method = "POST" -> ensurePOSTSparqlParams(rq)
            [] rq.method = "GET" -> ensureGETSparqlParams(rq)
            [] OTHER -> NoThrow
    IN IF shape.threw THEN shape
       ELSE IF ~Truthy(rq.session)
       THEN Throw(MkError("The required mu-session-id header could not be found.", {401}))
       ELSE NoThrow

\* ensureSparqlParams testing the session header against undefined only
ensureSparqlParams_UndefinedOnly(rq) ==
    LET shape == ensureSparqlParams_NoSessionCheck(rq)
    IN IF shape.threw THEN shape
       ELSE IF rq.session = Undef
       THEN Throw(MkError("The required mu-session-id header could not be found.", {401}))
       ELSE NoThrow

ensureSparqlParams(rq) ==
    LET shape ==
          CASE rq.method = "POST" -> ensurePOSTSparqlParams(rq)
            [] rq.method = "GET" -> ensureGETSparqlParams(rq)
            [] OTHER -> Throw(MkError("Not a correctly formed request for SPARQL queries.",
                                      {401}))
    IN IF shape.threw THEN shape
       ELSE IF ~Truthy(rq.session)
       THEN Throw(MkError("The required mu-session-id header could not be found.", {401}))
       ELSE NoThrow

(***************************************************************************)
(* Authorization (src/app.js, Authorization).  isAuthorized comes from the *)
(* deployment's filter.js: it settles with any value, or rejects with any. *)
(***************************************************************************)
AuthReturnValues ==
    {Bool("true"), Bool("false"), Num("0"), Num("1"), Str(""), Str("yes"), Null, Undef}

AuthRaisedValues ==
    {MkError("query failed", {}), MkError("forbidden by the store", {403}),
     MkError("store unavailable", {503}), Str("boom"), Str("route"), Str("router"),
     Str(""), Null, Undef}

Returned(v) == [raised |-> FALSE, value |-> v]

Raised(e) == [raised |-> TRUE, value |-> e]

\* ensureAuthorized testing `isAuth === false` instead of `!isAuth`
ensureAuthorized_StrictFalse(o) ==
    IF o.raised THEN Throw(o.value)
    ELSE IF o.value = Bool("false")
    THEN Throw(MkError("This session is not authorized to execute SPARQL queries.", {403}))
    ELSE NoThrow

\* ensureAuthorized with its test inverted
ensureAuthorized_Inverted(o) ==
    IF o.raised THEN Throw(o.value)
    ELSE IF Truthy(o.value)
    THEN Throw(MkError("This session is not authorized to execute SPARQL queries.", {403}))
    ELSE NoThrow

\* ensureAuthorized once `await isAuthorized(session.value)` has settled with o
ensureAuthorized(o) ==
    IF o.raised THEN Throw(o.value)
    ELSE IF ~Truthy(o.value)
    THEN Throw(MkError("This session is not authorized to execute SPARQL queries.", {403}))
    ELSE NoThrow

(***************************************************************************)
(* The proxy's onProxyReq hook and the upstream.                           *)
(***************************************************************************)
\* What onProxyReq put on the outbound request: the Content-Length it set (none: the
\* inbound header is kept) and the body it wrote
NothingWritten == [contentLength |-> {}, written |-> NoPayload]

onProxyReq(rq) ==
    IF RegExpTest(SparqlType, rq.contentType) THEN
        IF rq.body.t = "buffer"
        THEN [threw |-> FALSE,
              proxyReq |-> [contentLength |-> {Len(rq.body.bytes)},
                            written |-> RawPayload(Utf8Encode(BodyToString(rq.body)))]]
        ELSE [threw |-> TRUE, proxyReq |-> NothingWritten]
    ELSE IF RegExpTest(FormType, rq.contentType)
    THEN [threw |-> FALSE,
          proxyReq |-> [contentLength |-> {}, written |-> FormPayload(rq.body.fields)]]
    ELSE [threw |-> FALSE, proxyReq |-> NothingWritten]

UpstreamResponses ==
    [status : {200, 403, 500},
     headers : {{}, {<<"content-type", "application/sparql-results+json">>}},
     body : {"", "results"}]

NoUpstreamResponse == [status |-> 0, headers |-> {}, body |-> ""]

UpstreamErrors == {"ECONNREFUSED", "ETIMEDOUT", "ECONNRESET", "HPE_INVALID_CONSTANT", "EPIPE"}

\* http-proxy-middleware's answer when the upstream cannot be reached
getStatusCode(code) ==
    IF code = "HPE_INVALID_CONSTANT" THEN 502
    ELSE IF code \in {"ECONNRESET", "ENOTFOUND", "ECONNREFUSED", "ETIMEDOUT"} THEN 504
    ELSE 500

(***************************************************************************)
(* Responses and the Express router.                                       *)
(***************************************************************************)
FreshResponse == [statusCode |-> 200, headers |-> {}, body |-> "", sent |-> FALSE]

\* res.setHeader for every header of hs
SetHeaders(old, hs) == {h \in old : \A n \in hs : n[1] # h[1]} \cup hs

\* The proxy relays the upstream's status line, headers and body
RelayResponse(rs, up) ==
    [statusCode |-> up.status, headers |-> SetHeaders(rs.headers, up.headers),
     body |-> up.body, sent |-> TRUE]

\* res.status(err.status || 500)
StatusOr500(e) ==
    IF e.status = {} \/ e.status = {0} THEN 500 ELSE CHOOSE s \in e.status : TRUE

\* literal(errorObject.message): the text of the oslc:message of the error document
errorToStore(e) == IF e.message = {} THEN "undefined" ELSE CHOOSE m \in e.message : TRUE

\* namedNode(iri): an N3 NamedNode, whose value is the iri it was made of
namedNode(iri) == [termType |-> "NamedNode", value |-> iri]

\* env.DATABASE_HOST, by default
DATABASE_HOST == "http://database:8890"

NoTarget == [host |-> "", path |-> <<>>]

\* The proxy has no pathRewrite: the outbound request goes to the request's own
\* path on the target
ProxyTarget(rq) == [host |-> DATABASE_HOST, path |-> rq.path]

\* the proxy mounted without a path
MountMatches_Everywhere(mount, path) == TRUE

\* path lies under the mount point of app.use(mount, ...)
MountMatches(mount, path) ==
    Len(path) >= Len(mount) /\ SubSeq(path, 1, Len(mount)) = mount

\* next(e) called by the checking middleware (next() is next(undefined)): the layer
\* Express runs next, and the error it carries
RouterNext(path, e) ==
    IF e = Str("router") THEN [to |-> "finalhandler", err |-> Null]
    ELSE LET layerError == IF e = Str("route") THEN Null ELSE e
         IN IF Truthy(layerError) THEN [to |-> "errorHandler", err |-> layerError]
            ELSE IF MountMatches(<<"sparql">>, path) THEN [to |-> "proxy", err |-> layerError]
            ELSE [to |-> "finalhandler", err |-> layerError]

(***************************************************************************)
(* State, per request.                                                     *)
(***************************************************************************)
VARIABLES
    pc,           \* where the request is in the pipeline
    req,          \* the Express request, body parsed
    res,          \* the response to the caller
    err,          \* the error handed to the error handler
    validated,    \* ensureSparqlParams returned without throwing
    authCalls,    \* how often isAuthorized was invoked
    authArg,      \* the argument of that invocation
    authOutcome,  \* how the invocation settled: "none", "truthy", "falsy", "raised"
    forwards,     \* how often the proxy opened a request to the upstream
    proxyReq,     \* what onProxyReq put on the outbound request
    upstreamRes,  \* what the upstream answered
    caught,       \* what the middleware's catch block caught
    target,       \* where the proxy sent the outbound request
    upstreamErr   \* the error code of a failed upstream connection

vars ==
    <<pc, req, res, err, validated, authCalls, authArg, authOutcome, forwards, proxyReq,
      upstreamRes, caught, target, upstreamErr>>

Init ==
    /\ pc = [r \in Reqs |-> "idle"]
    /\ req = [r \in Reqs |-> NoRequest]
    /\ res = [r \in Reqs |-> FreshResponse]
    /\ err = [r \in Reqs |-> Undef]
    /\ validated = [r \in Reqs |-> FALSE]
    /\ authCalls = [r \in Reqs |-> 0]
    /\ authArg = [r \in Reqs |-> Undef]
    /\ authOutcome = [r \in Reqs |-> "none"]
    /\ forwards = [r \in Reqs |-> 0]
    /\ proxyReq = [r \in Reqs |-> NothingWritten]
    /\ upstreamRes = [r \in Reqs |-> NoUpstreamResponse]
    /\ caught = [r \in Reqs |-> NoThrow]
    /\ target = [r \in Reqs |-> NoTarget]
    /\ upstreamErr = [r \in Reqs |-> ""]

\* The listener accepts request rq and the body parsers fill req.body
Receive(r, rq) ==
    /\ pc[r] = "idle"
    /\ pc' = [pc EXCEPT ![r] = "middleware"]
    /\ req' = [req EXCEPT ![r] = rq]
    /\ UNCHANGED <<res, err, validated, authCalls, authArg, authOutcome, forwards, proxyReq,
                   upstreamRes, caught, target, upstreamErr>>

\* next(e) from the checking middleware, with what the next layer does before it
\* returns: the error handler sets the status and starts rendering, the proxy
\* takes the request, or Express's final handler answers 404
HandOn(r, e) ==
    LET d == RouterNext(req[r].path, e)
    IN CASE d.to = "errorHandler" ->
              /\ pc' = [pc EXCEPT ![r] = "rendering"]
              /\ err' = [err EXCEPT ![r] = d.err]
              /\ res' = [res EXCEPT ![r].statusCode = StatusOr500(d.err)]
         [] d.to = "proxy" ->
              /\ pc' = [pc EXCEPT ![r] = "proxy"]
              /\ UNCHANGED <<err, res>>
         [] OTHER ->
              /\ pc' = [pc EXCEPT ![r] = "done"]
              /\ res' = [res EXCEPT ![r] = [statusCode |-> 404, headers |-> {},
                                           body |-> "Cannot " \o req[r].method, sent |-> TRUE]]
              /\ UNCHANGED err

\* The middleware reusing a truthy answer another request got for the same session
Middleware_CachedSession(r) ==
    /\ pc[r] = "middleware"
    /\ LET checked == ensureSparqlParams(req[r])
           cached == \E q \in Reqs \ {r} :
                        authOutcome[q] = "truthy" /\ authArg[q] = req[r].session
       IN IF checked.threw
          THEN /\ HandOn(r, checked.err)
               /\ caught' = [caught EXCEPT ![r] = checked]
               /\ UNCHANGED <<validated, authCalls, authArg>>
          ELSE IF cached
          THEN /\ validated' = [validated EXCEPT ![r] = TRUE]
               /\ HandOn(r, Undef)
               /\ UNCHANGED <<authCalls, authArg, caught>>
          ELSE /\ validated' = [validated EXCEPT ![r] = TRUE]
               /\ authCalls' = [authCalls EXCEPT ![r] = @ + 1]
               /\ authArg' = [authArg EXCEPT ![r] = namedNode(req[r].session).value]
               /\ pc' = [pc EXCEPT ![r] = "awaitAuth"]
               /\ UNCHANGED <<err, res, caught>>
    /\ UNCHANGED <<req, authOutcome, forwards, proxyReq, upstreamRes, target, upstreamErr>>

\* The checking middleware up to its await: ensureSparqlParams, then the call of
\* isAuthorized with the session header's value
Middleware(r) ==
    /\ pc[r] = "middleware"
    /\ LET checked == ensureSparqlParams(req[r])
       IN IF checked.threw
          THEN /\ HandOn(r, checked.err)
               /\ caught' = [caught EXCEPT ![r] = checked]
               /\ UNCHANGED <<validated, authCalls, authArg>>
          ELSE /\ validated' = [validated EXCEPT ![r] = TRUE]
               /\ authCalls' = [authCalls EXCEPT ![r] = @ + 1]
               /\ authArg' = [authArg EXCEPT ![r] = namedNode(req[r].session).value]
               /\ pc' = [pc EXCEPT ![r] = "awaitAuth"]
               /\ UNCHANGED <<err, res, caught>>
    /\ UNCHANGED <<req, authOutcome, forwards, proxyReq, upstreamRes, target, upstreamErr>>

\* The middleware keeping its verdict in a variable shared by all requests: once
\* some request was authorized, none is denied
AuthSettled_SharedVerdict(r, o) ==
    /\ pc[r] = "awaitAuth"
    /\ authOutcome' = [authOutcome EXCEPT ![r] =
                         IF o.raised THEN "raised" ELSE IF Truthy(o.value) THEN "truthy"
                         ELSE "falsy"]
    /\ LET ensured == ensureAuthorized(o)
           shared == \E q \in Reqs \ {r} : authOutcome[q] = "truthy"
       IN /\ IF ensured.threw /\ ~shared THEN HandOn(r, ensured.err) ELSE HandOn(r, Undef)
          /\ caught' = [caught EXCEPT ![r] = ensured]
    /\ UNCHANGED <<req, validated, authCalls, authArg, forwards, proxyReq, upstreamRes,
                   target, upstreamErr>>

\* The middleware calling isAuthorized a second time when the first call raised
AuthSettled_RetryOnce(r, o) ==
    /\ pc[r] = "awaitAuth"
    /\ IF o.raised /\ authCalls[r] < 2
       THEN /\ authCalls' = [authCalls EXCEPT ![r] = @ + 1]
            /\ UNCHANGED <<pc, err, res, caught, authOutcome>>
       ELSE /\ authOutcome' = [authOutcome EXCEPT ![r] =
                                 IF o.raised THEN "raised"
                                 ELSE IF Truthy(o.value) THEN "truthy" ELSE "falsy"]
            /\ LET ensured == ensureAuthorized(o)
               IN /\ IF ensured.threw THEN HandOn(r, ensured.err) ELSE HandOn(r, Undef)
                  /\ caught' = [caught EXCEPT ![r] = ensured]
            /\ UNCHANGED authCalls
    /\ UNCHANGED <<req, validated, authArg, forwards, proxyReq, upstreamRes, target,
                   upstreamErr>>

\* The middleware after its await, isAuthorized having settled with o
AuthSettled(r, o) ==
    /\ pc[r] = "awaitAuth"
    /\ authOutcome' = [authOutcome EXCEPT ![r] =
                         IF o.raised THEN "raised" ELSE IF Truthy(o.value) THEN "truthy"
                         ELSE "falsy"]
    /\ LET ensured == ensureAuthorized(o)
       IN /\ IF ensured.threw THEN HandOn(r, ensured.err) ELSE HandOn(r, Undef)
          /\ caught' = [caught EXCEPT ![r] = ensured]
    /\ UNCHANGED <<req, validated, authCalls, authArg, forwards, proxyReq, upstreamRes,
                   target, upstreamErr>>

AuthReturns(r) == \E v \in AuthReturnValues : AuthSettled(r, Returned(v))

AuthRaises(r) == \E e \in AuthRaisedValues : AuthSettled(r, Raised(e))

\* The proxy middleware opens the outbound request to DATABASE_HOST
ProxyStart(r) ==
    /\ pc[r] = "proxy"
    /\ forwards' = [forwards EXCEPT ![r] = @ + 1]
    /\ pc' = [pc EXCEPT ![r] = "proxyReq"]
    /\ target' = [target EXCEPT ![r] = ProxyTarget(req[r])]
    /\ UNCHANGED <<req, res, err, validated, authCalls, authArg, authOutcome, proxyReq,
                   upstreamRes, caught, upstreamErr>>

\* The proxyReq event: the onProxyReq hook writes the body again; an exception it
\* throws is caught by nobody
OnProxyReq(r) ==
    /\ pc[r] = "proxyReq"
    /\ LET hook == onProxyReq(req[r])
       IN /\ proxyReq' = [proxyReq EXCEPT ![r] = hook.proxyReq]
          /\ pc' = [pc EXCEPT ![r] = IF hook.threw THEN "uncaught" ELSE "upstream"]
    /\ UNCHANGED <<req, res, err, validated, authCalls, authArg, authOutcome, forwards,
                   upstreamRes, caught, target, upstreamErr>>

\* The upstream answers with up and the proxy relays it to the caller
UpstreamRespondsWith(r, up) ==
    /\ pc[r] = "upstream"
    /\ upstreamRes' = [upstreamRes EXCEPT ![r] = up]
    /\ res' = [res EXCEPT ![r] = RelayResponse(res[r], up)]
    /\ pc' = [pc EXCEPT ![r] = "done"]
    /\ UNCHANGED <<req, err, validated, authCalls, authArg, authOutcome, forwards, proxyReq,
                   caught, target, upstreamErr>>

UpstreamResponds(r) == \E up \in UpstreamResponses : UpstreamRespondsWith(r, up)

\* The connection failure handed to the application's error handler instead
UpstreamFailsWith_ViaErrorHandler(r, code) ==
    /\ pc[r] = "upstream"
    /\ upstreamErr' = [upstreamErr EXCEPT ![r] = code]
    /\ err' = [err EXCEPT ![r] = MkError(code, {})]
    /\ res' = [res EXCEPT ![r] = [statusCode |-> StatusOr500(MkError(code, {})),
                                  headers |-> {}, body |-> code, sent |-> TRUE]]
    /\ pc' = [pc EXCEPT ![r] = "done"]
    /\ UNCHANGED <<req, validated, authCalls, authArg, authOutcome, forwards, proxyReq,
                   upstreamRes, caught, target>>

\* The connection to the upstream fails with code, and the proxy's own error
\* handler answers the caller
UpstreamFailsWith(r, code) ==
    /\ pc[r] = "upstream"
    /\ upstreamErr' = [upstreamErr EXCEPT ![r] = code]
    /\ res' = [res EXCEPT ![r] = [statusCode |-> getStatusCode(code), headers |-> {},
                                  body |-> "Error occurred while trying to proxy",
                                  sent |-> TRUE]]
    /\ pc' = [pc EXCEPT ![r] = "done"]
    /\ UNCHANGED <<req, err, validated, authCalls, authArg, authOutcome, forwards, proxyReq,
                   upstreamRes, caught, target>>

UpstreamFails(r) == \E code \in UpstreamErrors : UpstreamFailsWith(r, code)

\* The error handler after its await: res.json(errorJsonld)
RenderError(r) ==
    /\ pc[r] = "rendering"
    /\ res' = [res EXCEPT ![r].body = errorToStore(err[r]),
                          ![r].headers = SetHeaders(@, {<<"content-type", "application/json">>}),
                          ![r].sent = TRUE]
    /\ pc' = [pc EXCEPT ![r] = "done"]
    /\ UNCHANGED <<req, err, validated, authCalls, authArg, authOutcome, forwards, proxyReq,
                   upstreamRes, caught, target, upstreamErr>>

\* The error handler's await rejects (errorToStore or storeToJsonLd fails): the
\* handler has no catch, the status is set but nothing is sent
RenderFails(r) ==
    /\ pc[r] = "rendering"
    /\ pc' = [pc EXCEPT ![r] = "unhandledRejection"]
    /\ UNCHANGED <<req, res, err, validated, authCalls, authArg, authOutcome, forwards,
                   proxyReq, upstreamRes, caught, target, upstreamErr>>

Arrives(r) ==
    /\ pc[r] = "idle"
    /\ \E m \in Methods, p \in Paths, ct \in ContentTypes, s \in SessionHeaders, q \in QueryParams :
          \E w \in PayloadsFor(ct) : Receive(r, MkRequest(m, p, ct, s, q, w))

\* One request through the pipeline
Next ==
    \E r \in {1} :
        \/ Arrives(r)
        \/ Middleware(r)
        \/ AuthReturns(r)
        \/ AuthRaises(r)
        \/ ProxyStart(r)
        \/ OnProxyReq(r)
        \/ UpstreamResponds(r)
        \/ UpstreamFails(r)
        \/ RenderError(r)

Spec == Init /\ [][Next]_vars

\* One request through the pipeline, with an error rendering that can fail
NextRender ==
    \/ Next
    \/ \E r \in {1} : RenderFails(r)

SpecRender == Init /\ [][NextRender]_vars

(***************************************************************************)
(* Several requests in flight, interleaved at their awaits.                *)
(***************************************************************************)
ConcRequests ==
    {MkRequest("POST", <<"sparql">>, Str(FormType), s, Undef,
               FormPayload([n \in {"query"} |-> "SELECT"])) :
        s \in {Undef, Str("http://example/sessions/1"), Str("http://example/sessions/2")}}
    \cup {MkRequest("GET", <<"other">>, Undef, Str("http://example/sessions/1"),
                    Str("SELECT"), NoPayload)}

ArrivesConc(r) == \E rq \in ConcRequests : Receive(r, rq)

AuthReturnsConc(r) == \E v \in {Bool("true"), Bool("false")} : AuthSettled(r, Returned(v))

AuthRaisesConc(r) ==
    \E e \in {MkError("query failed", {}), Undef} : AuthSettled(r, Raised(e))

UpstreamRespondsConc(r) ==
    \E up \in {u \in UpstreamResponses :
                  \/ u.status = 200 /\ u.body = "results" /\ u.headers # {}
                  \/ u.status = 500 /\ u.body = "" /\ u.headers = {}} :
        UpstreamRespondsWith(r, up)

UpstreamFailsConc(r) == UpstreamFailsWith(r, "ECONNREFUSED")

NextConc ==
    \E r \in Reqs :
        \/ ArrivesConc(r)
        \/ Middleware(r)
        \/ AuthReturnsConc(r)
        \/ AuthRaisesConc(r)
        \/ ProxyStart(r)
        \/ OnProxyReq(r)
        \/ UpstreamRespondsConc(r)
        \/ UpstreamFailsConc(r)
        \/ RenderError(r)

SpecConc == Init /\ [][NextConc]_vars

(***************************************************************************)
(* Properties.                                                             *)
(***************************************************************************)
\* The request has entered the pipeline and the checking middleware has run
Checked(r) == pc[r] \notin {"idle", "middleware"}

\* An error response is on its way (being rendered) or has been sent
Answering(r) == pc[r] \in {"rendering", "done"} /\ (pc[r] = "done" => res[r].sent)

\* The text of a raw body is empty once trimmed
Blank(bytes) == Trim(Utf8Decode(bytes)) = <<>>

\* The caller sent no body, or one of no bytes
EmptyPayload(w) ==
    \/ w.k = "none"
    \/ w.k = "raw" /\ w.bytes = <<>>
    \/ w.k = "form" /\ w.fields = NoFields

FormQuery(rq) ==
    rq.payload.k = "form" /\ "query" \in DOMAIN rq.payload.fields
        /\ rq.payload.fields["query"] # ""

\* The three accepted request shapes, read off the request as the caller sent it
ShapeValid(rq) ==
    \/ rq.method = "POST" /\ rq.contentType = Str(FormType) /\ FormQuery(rq)
    \/ rq.method = "POST" /\ rq.contentType = Str(SparqlType) /\ rq.payload.k = "raw"
         /\ ~Blank(rq.payload.bytes)
    \/ rq.method = "GET" /\ Truthy(rq.query) /\ EmptyPayload(rq.payload)

\* C1: the upstream is contacted for a request only if ensureSparqlParams returned
\* without throwing and isAuthorized returned a truthy value, however validation
\* or the predicate ended.
C1_ForwardOnlyIfValidAndAuthorized ==
    \A r \in Reqs : forwards[r] > 0 => validated[r] /\ authOutcome[r] = "truthy"

\* C2: when isAuthorized returns a falsy value for a shape-valid request with a
\* session header, the response status is 403 and the upstream is never contacted.
C2_FalsyIs403 ==
    \A r \in Reqs :
        authOutcome[r] = "falsy" =>
            /\ forwards[r] = 0
            /\ Answering(r)
            /\ res[r].statusCode = 403

C2_Witness ==
    \E r \in Reqs :
        /\ authOutcome[r] = "falsy"
        /\ ShapeValid(req[r]) /\ Truthy(req[r].session)
        /\ pc[r] = "done" /\ res[r].sent /\ res[r].statusCode = 403

\* C3: when the isAuthorized call raises, whatever it raises, the response status
\* is in the 500 class (never 403) and the upstream is never contacted.
C3_RaiseIs5xx ==
    \A r \in Reqs :
        authOutcome[r] = "raised" =>
            /\ forwards[r] = 0
            /\ Answering(r)
            /\ res[r].statusCode \in 500..599

\* C4: a request of an accepted shape without the Mu-Session-Id header is answered
\* 401; isAuthorized is never invoked and the upstream never contacted.
C4_MissingSessionIs401 ==
    \A r \in Reqs :
        pc[r] # "idle" /\ ShapeValid(req[r]) /\ req[r].session = Undef =>
            /\ authCalls[r] = 0
            /\ forwards[r] = 0
            /\ Checked(r) => Answering(r) /\ res[r].statusCode = 401

C4_Witness ==
    \E r \in Reqs :
        /\ ShapeValid(req[r]) /\ req[r].session = Undef /\ req[r].method = "GET"
        /\ pc[r] = "done" /\ res[r].sent /\ res[r].statusCode = 401

\* The parsed form body has no query field, or an empty one
NoFormQuery(rq) ==
    rq.body.t = "object"
        /\ ("query" \notin DOMAIN rq.body.fields \/ rq.body.fields["query"] = "")

\* C5: a form POST whose parsed body has no query field, or an empty one, is
\* answered 400 whether or not the session header is present; neither isAuthorized
\* nor the upstream is invoked.
C5_FormWithoutQueryIs400 ==
    \A r \in Reqs :
        /\ pc[r] # "idle" /\ req[r].method = "POST"
        /\ req[r].contentType = Str(FormType) /\ NoFormQuery(req[r])
        => /\ authCalls[r] = 0
           /\ forwards[r] = 0
           /\ Checked(r) => Answering(r) /\ res[r].statusCode = 400

C5_Witness ==
    \E r \in Reqs :
        /\ req[r].method = "POST" /\ req[r].contentType = Str(FormType)
        /\ req[r].payload.k = "form" /\ NoFormQuery(req[r])
        /\ req[r].session = Undef
        /\ pc[r] = "done" /\ res[r].sent /\ res[r].statusCode = 400

\* C6: a GET request that fails the GET shape check (no query URL parameter or an
\* empty one, or a query parameter with a non-empty body) is answered 400, and
\* neither isAuthorized nor the upstream is invoked.
C6_BadGetIs400 ==
    \A r \in Reqs :
        /\ pc[r] # "idle" /\ req[r].method = "GET"
        /\ (~Truthy(req[r].query) \/ ~EmptyPayload(req[r].payload))
        => /\ authCalls[r] = 0
           /\ forwards[r] = 0
           /\ Checked(r) => Answering(r) /\ res[r].statusCode = 400

\* C7: an application/sparql-query POST whose body is empty after trimming (no
\* bytes, white space only, or no body sent at all) is answered 400, and neither
\* isAuthorized nor the upstream is invoked.
C7_BlankSparqlBodyIs400 ==
    \A r \in Reqs :
        /\ pc[r] # "idle" /\ req[r].method = "POST"
        /\ req[r].contentType = Str(SparqlType)
        /\ (req[r].payload.k = "none" \/ Blank(req[r].payload.bytes))
        => /\ authCalls[r] = 0
           /\ forwards[r] = 0
           /\ Checked(r) => Answering(r) /\ res[r].statusCode = 400

\* C8: a request whose method is neither GET nor POST is answered 401 whatever its
\* headers, body and query parameters; isAuthorized is never invoked and the
\* upstream never contacted.
C8_OtherMethodIs401 ==
    \A r \in Reqs :
        pc[r] # "idle" /\ req[r].method \notin {"GET", "POST"} =>
            /\ authCalls[r] = 0
            /\ forwards[r] = 0
            /\ Checked(r) => Answering(r) /\ res[r].statusCode = 401

C8_Witness ==
    \E r \in Reqs :
        /\ req[r].method = "PUT" /\ Truthy(req[r].session)
        /\ req[r].contentType = Str(SparqlType) /\ req[r].payload.k = "raw"
        /\ ~Blank(req[r].payload.bytes)
        /\ pc[r] = "done" /\ res[r].sent /\ res[r].statusCode = 401

\* The upstream answered the forwarded request
UpstreamAnswered(r) == upstreamRes[r] # NoUpstreamResponse

C10_RawBodyForwardedVerbatim ==
    \A r \in Reqs :
        /\ req[r].method = "POST" /\ req[r].contentType = Str(SparqlType)
        /\ req[r].payload.k = "raw" /\ pc[r] \in {"upstream", "done"} /\ forwards[r] > 0
        => /\ proxyReq[r].written = RawPayload(req[r].payload.bytes)
           /\ proxyReq[r].contentLength = {Len(proxyReq[r].written.bytes)}


\* The request is at rest: no step of the pipeline is pending for it
AtRest(r) == pc[r] \in {"done", "uncaught", "unhandledRejection"}

\* The request was forwarded and the upstream's response relayed to the caller
Streamed(r) == forwards[r] = 1 /\ UpstreamAnswered(r) /\ res[r].sent

\* An error response was sent to the caller without any upstream response
ErrorRendered(r) == res[r].sent /\ ~UpstreamAnswered(r)

\* C11: no request is forwarded twice, and a request at rest has had exactly one
\* terminal action: its upstream response was relayed, or an error response was
\* sent, never both and never neither.
C11_ExactlyOneTerminalAction ==
    \A r \in Reqs :
        /\ forwards[r] <= 1
        /\ AtRest(r) => (Streamed(r) /\ ~ErrorRendered(r)) \/ (~Streamed(r) /\ ErrorRendered(r))

\* C12: once a request whose validation or authorization raised a failure is at
\* rest, one response was sent for it, with the failure's own status (else 500)
\* and the failure's message, also when the error rendering fails; no failure
\* ends as an unhandled rejection.
C12_RaisedFailureIsAnswered ==
    \A r \in Reqs :
        /\ pc[r] # "unhandledRejection"
        /\ caught[r].threw /\ AtRest(r) =>
             /\ res[r].sent
             /\ res[r].statusCode = StatusOr500(caught[r].err)
             /\ res[r].body = errorToStore(caught[r].err)


\* The outbound request was handed to the upstream connection
InProxy(r) == pc[r] \in {"proxy", "proxyReq", "upstream", "uncaught"}

\* C13: isAuthorized is invoked at most once per request and only after the shape
\* check and the session-header check passed; the proxy starts, and anything is
\* written to the upstream, only after the isAuthorized promise has settled; the
\* request is forwarded at most once.
C13_ValidateAuthorizeForward ==
    \A r \in Reqs :
        /\ authCalls[r] <= 1
        /\ forwards[r] <= 1
        /\ authCalls[r] > 0 =>
             /\ validated[r]
             /\ req[r].method \in {"GET", "POST"}
             /\ Truthy(req[r].session)
        /\ InProxy(r) \/ forwards[r] > 0 \/ proxyReq[r] # NothingWritten =>
             /\ authCalls[r] = 1
             /\ authOutcome[r] # "none"
        /\ pc[r] = "awaitAuth" => forwards[r] = 0 /\ proxyReq[r] = NothingWritten

C13_Witness ==
    \E r \in Reqs :
        /\ validated[r] /\ authCalls[r] = 1 /\ authOutcome[r] = "truthy"
        /\ forwards[r] = 1 /\ proxyReq[r] # NothingWritten
        /\ pc[r] = "done" /\ UpstreamAnswered(r)

\* Everything the service holds about one request
Slot(r) ==
    <<pc[r], req[r], res[r], err[r], validated[r], authCalls[r], authArg[r],
      authOutcome[r], forwards[r], proxyReq[r], upstreamRes[r], caught[r], target[r],
      upstreamErr[r]>>

\* The outcome of a request follows from the request and from the answer of
\* isAuthorized for it
OwnOutcome(r) ==
    /\ Checked(r) => (authCalls[r] = 0 <=> ~Truthy(req[r].session))
    /\ Checked(r) /\ ~Truthy(req[r].session) =>
         forwards[r] = 0 /\ Answering(r) /\ res[r].statusCode = 401
    /\ authOutcome[r] = "falsy" =>
         forwards[r] = 0 /\ Answering(r) /\ res[r].statusCode = 403
    /\ authOutcome[r] = "truthy" =>
         /\ ~caught[r].threw
         /\ res[r].statusCode \notin {400, 401, 403}
         /\ req[r].path = <<"sparql">> => InProxy(r) \/ (pc[r] = "done" /\ forwards[r] = 1)
    /\ forwards[r] > 0 => authOutcome[r] \in {"truthy", "raised"}

UnderSparql(path) == Len(path) >= 1 /\ path[1] = "sparql"

\* C15: two equal valid requests run independently: isAuthorized is invoked once
\* for each, each is forwarded once when its own call returned truthy, and one
\* is answered 403 when its own call returned falsy, whatever the other got.
C15_SameRequestTwice ==
    \A a, b \in Reqs :
        a # b /\ pc[a] # "idle" /\ req[a] = req[b] /\ Truthy(req[a].session) =>
            /\ Checked(a) => authCalls[a] = 1
            /\ authOutcome[a] = "truthy" /\ UnderSparql(req[a].path)
                 /\ pc[a] \in {"proxyReq", "upstream", "done"} => forwards[a] = 1
            /\ authOutcome[a] = "falsy" =>
                 forwards[a] = 0 /\ Answering(a) /\ res[a].statusCode = 403

C15_Witness ==
    \E a, b \in Reqs :
        /\ a # b /\ req[a] = req[b] /\ UnderSparql(req[a].path)
        /\ authCalls[a] = 1 /\ authOutcome[a] = "truthy" /\ forwards[a] = 1
        /\ pc[a] = "done" /\ UpstreamAnswered(a)
        /\ authCalls[b] = 1 /\ authOutcome[b] = "falsy" /\ forwards[b] = 0
        /\ pc[b] = "done" /\ res[b].sent /\ res[b].statusCode = 403

C17_UpstreamFailureIsGatewayError ==
    \A r \in Reqs :
        upstreamErr[r] \in {"ECONNREFUSED", "ETIMEDOUT", "ECONNRESET"} =>
            /\ pc[r] = "done" /\ res[r].sent
            /\ res[r].statusCode \in {502, 504}
            /\ res[r].statusCode \notin {400, 401, 403}
            /\ forwards[r] = 1
            /\ ~UpstreamAnswered(r)

C17_Witness ==
    \E r \in Reqs :
        /\ upstreamErr[r] = "ECONNREFUSED" /\ validated[r] /\ authOutcome[r] = "truthy"
        /\ forwards[r] = 1 /\ pc[r] = "done" /\ res[r].sent /\ res[r].statusCode = 504

\* C18: a POST whose Content-Type is neither the form type nor the sparql-query
\* type, or is absent, is answered 400 whatever its body and also without a
\* session header; isAuthorized is not invoked and the upstream not contacted.
C18_OtherContentTypeIs400 ==
    \A r \in Reqs :
        req[r].method = "POST" /\ req[r].contentType \notin {Str(FormType), Str(SparqlType)} =>
            /\ authCalls[r] = 0
            /\ forwards[r] = 0
            /\ ~InProxy(r)
            /\ Checked(r) => Answering(r) /\ res[r].statusCode = 400

C18_Witness ==
    \E r \in Reqs :
        /\ req[r].method = "POST" /\ req[r].contentType = Undef
        /\ req[r].session = Undef /\ ~EmptyPayload(req[r].payload)
        /\ authCalls[r] = 0 /\ forwards[r] = 0
        /\ pc[r] = "done" /\ res[r].sent /\ res[r].statusCode = 400

\* C19: whenever isAuthorized was invoked, its argument is a non-empty string equal
\* to the request's Mu-Session-Id header; a request of an accepted shape whose
\* header is the empty string is answered 401 and isAuthorized is not invoked.
C19_SessionPassedAsIs ==
    \A r \in Reqs :
        /\ authCalls[r] > 0 =>
             /\ authArg[r].t = "string"
             /\ authArg[r].v # ""
             /\ authArg[r] = req[r].session
        /\ pc[r] # "idle" /\ ShapeValid(req[r]) /\ req[r].session = Str("") =>
             /\ authCalls[r] = 0
             /\ forwards[r] = 0
             /\ Checked(r) => Answering(r) /\ res[r].statusCode = 401

C19_Witness ==
    \E r \in Reqs :
        /\ authCalls[r] = 1 /\ req[r].session = Str("http://example/sessions/2")
        /\ authArg[r] = Str("http://example/sessions/2")
        /\ authOutcome[r] # "none"

====
